---- MODULE Spec2Model ----
(***************************************************************************)
(* tuple_join: joining and splitting tuples at the type level.             *)
(*                                                                         *)
(* Two layers are modelled.                                                *)
(*   - The expansion of the macros tuple_join! and tuple_join_y!, which    *)
(*     emits the table of `impl Join<..> for ..` items.  The expander      *)
(*     replaces an invocation by the transcription of the first rule that  *)
(*     matches it and expands the invocations of the result in textual     *)
(*     order, so the work list is a stack.                                 *)
(*   - The value level: join, split, push, pop and the reverse forms       *)
(*     Joined::split and Appended::pop, applied through an emitted impl.   *)
(*     A generated body binds the elements of its operands to variables    *)
(*     named after the macro's identifiers and rebuilds tuples from those  *)
(*     names, and is modelled that way.                                    *)
(***************************************************************************)
EXTENDS Integers, Sequences, FiniteSets, TLC

VARIABLES pending, emitted, failed, inst, hist, ops

vars == <<pending, emitted, failed, inst, hist, ops>>

\* ------------------------------------------------------------------------
\* Bounds of the value-level inputs
\* ------------------------------------------------------------------------

\* operand elements are base + position * stride, base in 0..MaxBase
MaxBase == 1

\* stride in 0..MaxStride (0: all elements equal, 1: all distinct)
MaxStride == 1

\* number of operations applied in a row to one input
MaxOps == 2

\* "Supports up to tuple length 13."
MaxTupleLen == 13

\* ------------------------------------------------------------------------
\* The top-level invocation
\* ------------------------------------------------------------------------

TopLeft == <<"A", "B", "C", "D", "E", "F", "G", "H", "I", "J", "K", "L", "M">>

TopRight == <<"N", "O", "P", "Q", "R", "S", "T", "U", "V", "W", "X", "Y", "Z">>

Range(s) == {s[k] : k \in 1..Len(s)}

Impl(rule, xs, ys) == [kind |-> "impl", name |-> rule, xs |-> xs, ys |-> ys]

Invoke(macro, xs, ys) == [kind |-> "invoke", name |-> macro, xs |-> xs, ys |-> ys]

\* the invocation with one more identifier in each list
TopInvocation_14 == Invoke("tuple_join", <<"A0">> \o TopLeft, <<"N0">> \o TopRight)

\* tuple_join!(A B C D E F G H I J K L M, N O P Q R S T U V W X Y Z);
TopInvocation == Invoke("tuple_join", TopLeft, TopRight)

\* ------------------------------------------------------------------------
\* macro_rules! tuple_join_y
\* ------------------------------------------------------------------------

\* ($($x: ident)* ,)
TJY_Rule1_Matches(xs, ys) == ys = <<>>

\* ($($x: ident)*, $y0:ident $($y: ident)*)
TJY_Rule2_Matches(xs, ys) == Len(ys) >= 1

\* impl<..> Join<()> for ($($x,)*)
TJY_Rule1_Transcribe(xs, ys) == <<Impl("tuple_join_y.1", xs, <<>>)>>

\* impl<..> Join<($y0,$($y,)*)> for ($($x,)*);  tuple_join_y!($($x)*, $($y)*);
TJY_Rule2_Transcribe(xs, ys) ==
    <<Impl("tuple_join_y.2", xs, ys), Invoke("tuple_join_y", xs, Tail(ys))>>

\* ------------------------------------------------------------------------
\* macro_rules! tuple_join
\* ------------------------------------------------------------------------

\* (, $y0:ident $($y: ident)*)
TJ_Rule1_Matches(xs, ys) == xs = <<>> /\ Len(ys) >= 1

\* ($x0: ident $($x: ident)*, $y0:ident $($y: ident)*)
TJ_Rule2_Matches(xs, ys) == Len(xs) >= 1 /\ Len(ys) >= 1

\* the same rule, handing the whole right list to tuple_join_y
TJ_Rule1_Transcribe_FullRight(xs, ys) ==
    <<Impl("tuple_join.1", <<>>, ys), Invoke("tuple_join_y", <<>>, ys)>>

\* impl<..> Join<($y0,$($y),*)> for ();  tuple_join_y!(, $($y)*);
TJ_Rule1_Transcribe(xs, ys) ==
    <<Impl("tuple_join.1", <<>>, ys), Invoke("tuple_join_y", <<>>, Tail(ys))>>

\* the same rule, handing the whole right list to tuple_join_y
TJ_Rule2_Transcribe_FullRight(xs, ys) ==
    << Impl("tuple_join.2", xs, ys),
       Invoke("tuple_join", Tail(xs), ys),
       Invoke("tuple_join_y", xs, ys) >>

\* the same rule, shortening the right list in the tuple_join recursion too
TJ_Rule2_Transcribe_ShortensRight(xs, ys) ==
    << Impl("tuple_join.2", xs, ys),
       Invoke("tuple_join", Tail(xs), Tail(ys)),
       Invoke("tuple_join_y", xs, Tail(ys)) >>

\* impl<..> Join<($y0,$($y,)*)> for ($x0,$($x,)*);
\* tuple_join!($($x)*, $y0 $($y)*);  tuple_join_y!($x0 $($x)*, $($y)*);
TJ_Rule2_Transcribe(xs, ys) ==
    << Impl("tuple_join.2", xs, ys),
       Invoke("tuple_join", Tail(xs), ys),
       Invoke("tuple_join_y", xs, Tail(ys)) >>

\* ------------------------------------------------------------------------
\* Rule selection: the rules of a macro are tried in order
\* ------------------------------------------------------------------------

MatchingRules(inv) ==
    IF inv.name = "tuple_join"
    THEN {r \in {"tuple_join.1", "tuple_join.2"} :
            \/ r = "tuple_join.1" /\ TJ_Rule1_Matches(inv.xs, inv.ys)
            \/ r = "tuple_join.2" /\ TJ_Rule2_Matches(inv.xs, inv.ys)}
    ELSE {r \in {"tuple_join_y.1", "tuple_join_y.2"} :
            \/ r = "tuple_join_y.1" /\ TJY_Rule1_Matches(inv.xs, inv.ys)
            \/ r = "tuple_join_y.2" /\ TJY_Rule2_Matches(inv.xs, inv.ys)}

FirstRule(inv) ==
    IF inv.name = "tuple_join"
    THEN IF TJ_Rule1_Matches(inv.xs, inv.ys) THEN "tuple_join.1"
         ELSE IF TJ_Rule2_Matches(inv.xs, inv.ys) THEN "tuple_join.2"
         ELSE "none"
    ELSE IF TJY_Rule1_Matches(inv.xs, inv.ys) THEN "tuple_join_y.1"
         ELSE IF TJY_Rule2_Matches(inv.xs, inv.ys) THEN "tuple_join_y.2"
         ELSE "none"

Transcribe(rule, xs, ys) ==
    CASE rule = "tuple_join.1" -> TJ_Rule1_Transcribe(xs, ys)
      [] rule = "tuple_join.2" -> TJ_Rule2_Transcribe(xs, ys)
      [] rule = "tuple_join_y.1" -> TJY_Rule1_Transcribe(xs, ys)
      [] rule = "tuple_join_y.2" -> TJY_Rule2_Transcribe(xs, ys)

IsImpl(item) == item.kind = "impl"

IsInvoke(item) == item.kind = "invoke"

\* One expansion step: the first pending invocation is replaced by the
\* transcription of its first matching rule; the items it yields are emitted
\* and its invocations are expanded next, in textual order.  An invocation no
\* rule matches is a compile error and ends the expansion.
ExpandHead ==
    LET inv == Head(pending)
        rule == FirstRule(inv)
    IN IF rule = "none"
       THEN /\ failed' = TRUE
            /\ UNCHANGED <<pending, emitted>>
       ELSE LET out == Transcribe(rule, inv.xs, inv.ys)
            IN /\ emitted' = emitted \o SelectSeq(out, IsImpl)
               /\ pending' = SelectSeq(out, IsInvoke) \o Tail(pending)
               /\ UNCHANGED failed

ExpandTupleJoin ==
    /\ ~failed
    /\ pending # <<>>
    /\ Head(pending).name = "tuple_join"
    /\ ExpandHead
    /\ UNCHANGED <<inst, hist, ops>>

ExpandTupleJoinY ==
    /\ ~failed
    /\ pending # <<>>
    /\ Head(pending).name = "tuple_join_y"
    /\ ExpandHead
    /\ UNCHANGED <<inst, hist, ops>>

Expanded == pending = <<>> /\ ~failed

LeftArity(i) == Len(i.xs)

RightArity(i) == Len(i.ys)

OutArity(i) == Len(i.xs) + Len(i.ys)

\* ------------------------------------------------------------------------
\* The bodies of the generated impls
\* ------------------------------------------------------------------------

\* A tuple pattern ($n1, $n2, ..) matched against a tuple: every identifier
\* is bound to the element at its position.  rustc rejects a pattern that
\* binds one identifier twice.
Bind(names, tuple) ==
    [n \in Range(names) |-> tuple[CHOOSE k \in 1..Len(names) : names[k] = n]]

\* Bindings of a `let` in the body shadow those of the parameters.
Shadow(outer, inner) ==
    [n \in (DOMAIN outer) \cup (DOMAIN inner) |->
        IF n \in DOMAIN inner THEN inner[n] ELSE outer[n]]

\* A tuple expression ($n1, $n2, ..) evaluated under the bindings.
Build(names, env) == [k \in 1..Len(names) |-> env[names[k]]]

\* the same body, rebuilding the tuple from the right identifiers first
JoinDestructure_RightFirst(xs, ys, self, other) ==
    Build(ys \o xs, Shadow(Bind(ys, other), Bind(xs, self)))

\* the same body, leaving $y0 out of the tuple it rebuilds
JoinDestructure_DropsY0(xs, ys, self, other) ==
    Build(xs \o Tail(ys), Shadow(Bind(ys, other), Bind(xs, self)))

\* fn join(self, ($y0,$($y,)*): ($y0,$($y,)*)) -> Self::Out {
\*     let ($($x,)*) = self;
\*     ($($x,)* $y0,$($y,)*)
\* }
JoinDestructure(xs, ys, self, other) ==
    Build(xs \o ys, Shadow(Bind(ys, other), Bind(xs, self)))

\* the same body, with $y0 leading the parameter pattern
SplitDestructure_Y0First(xs, ys, out) ==
    LET env == Bind(<<Head(ys)>> \o xs \o Tail(ys), out)
    IN <<Build(xs, env), Build(ys, env)>>

\* fn split(($($x,)* $y0,$($y,)*): Self::Out) -> (Self, ($y0,$($y,)*)) {
\*     (($($x,)*), ($y0,$($y,)*))
\* }
SplitDestructure(xs, ys, out) ==
    LET env == Bind(xs \o ys, out)
    IN <<Build(xs, env), Build(ys, env)>>

\* Join::join of the impl i
Join(i, self, other) ==
    CASE i.name = "tuple_join_y.1" -> self
      [] i.name = "tuple_join.1" -> other
      [] OTHER -> JoinDestructure(i.xs, i.ys, self, other)

\* Join::split with the sides of the pass-through results exchanged
Split_SidesExchanged(i, out) ==
    CASE i.name = "tuple_join_y.1" -> << <<>>, out >>
      [] i.name = "tuple_join.1" -> << out, <<>> >>
      [] OTHER -> SplitDestructure(i.xs, i.ys, out)

\* Join::split of the impl i
Split(i, out) ==
    CASE i.name = "tuple_join_y.1" -> << out, <<>> >>
      [] i.name = "tuple_join.1" -> << <<>>, out >>
      [] OTHER -> SplitDestructure(i.xs, i.ys, out)

\* Append::push that returns self without joining
Push_ReturnsSelf(i, self, other) == self

\* fn push(self, other: A) -> Self::Out { self.join((other,)) }
Push(i, self, other) == Join(i, self, <<other>>)

\* fn pop(tuple: Self::Out) -> (Self, A) {
\*     let (a, (b, )) = Self::split(tuple); return (a, b);
\* }
Pop(i, tuple) ==
    LET s == Split(i, tuple)
    IN <<s[1], s[2][1]>>

\* ------------------------------------------------------------------------
\* Reverse derivation: Joined<A, B> for T and Appended<A, B> for T
\* ------------------------------------------------------------------------

\* The elements of the model are integers: every element type is the same.
TypeOf(t) == [k \in 1..Len(t) |-> "int"]

\* `type Out` of the impl i with its parameters instantiated so that Self is
\* A and the right operand is B
OutType(i, A, B) == Build(i.xs \o i.ys, Shadow(Bind(i.xs, A), Bind(i.ys, B)))

\* resolution by the Self type alone, Out left unconstrained
Resolve_IgnoresOut(A, T) ==
    {k \in 1..Len(emitted) : LeftArity(emitted[k]) = Len(A)}

\* where A: Join<B, Out = T>: the emitted impls whose Self type is A and whose
\* Out is T; B is then the rest of T
Resolve(A, T) ==
    {k \in 1..Len(emitted) :
        /\ LeftArity(emitted[k]) = Len(A)
        /\ OutArity(emitted[k]) = Len(T)
        /\ OutType(emitted[k], A, SubSeq(T, Len(A) + 1, Len(T))) = T}

\* where A: Append<B, Out = T>, and Append<B> is implemented for every
\* A: Join<(B,)>
ResolveAppend(A, T) == {k \in Resolve(A, T) : RightArity(emitted[k]) = 1}

\* fn split(self) -> (A, B) { A::split(self) }
JoinedSplit(A, t) ==
    Split(emitted[CHOOSE k \in Resolve(A, TypeOf(t)) : TRUE], t)

\* fn pop(self) -> (A, B) { A::pop(self) }
AppendedPop(A, t) ==
    Pop(emitted[CHOOSE k \in ResolveAppend(A, TypeOf(t)) : TRUE], t)

\* ------------------------------------------------------------------------
\* Calls at the value level
\* ------------------------------------------------------------------------

\* an operand pair (left, right)
Pair(l, r) == [kind |-> "pair", a |-> l, b |-> r]

\* a combined tuple
Whole(t) == [kind |-> "whole", a |-> t, b |-> <<>>]

\* a tuple and one element, the operands of push and the result of pop
Elem(t, e) == [kind |-> "elem", a |-> t, b |-> e]

Tup(n, base, stride) == [k \in 1..n |-> base + (k - 1) * stride]

\* the right operand continues the numbering of the left one
RightTup(l, n, base, stride) == [k \in 1..n |-> base + (l + k - 1) * stride]

Last(s) == s[Len(s)]

Cur == emitted[inst]

CanCall == Expanded /\ inst # 0 /\ Len(ops) < MaxOps

Applied(op, result) ==
    /\ hist' = Append(hist, result)
    /\ ops' = Append(ops, op)
    /\ UNCHANGED <<pending, emitted, failed, inst>>

\* The program picks an impl and its operands once the crate is compiled.
Start ==
    /\ Expanded
    /\ inst = 0
    /\ \E k \in 1..Len(emitted), shape \in {"pair", "whole", "elem"},
          la \in 0..MaxBase, ls \in 0..MaxStride,
          ra \in 0..MaxBase, rs \in 0..MaxStride :
          LET L == LeftArity(emitted[k])
              R == RightArity(emitted[k])
          IN /\ shape = "elem" => R = 1
             /\ inst' = k
             /\ hist' = << CASE shape = "pair" ->
                                Pair(Tup(L, la, ls), RightTup(L, R, ra, rs))
                             [] shape = "whole" ->
                                Whole(Tup(L + R, la, ls))
                             [] shape = "elem" ->
                                Elem(Tup(L, la, ls), ra + L * rs) >>
    /\ UNCHANGED <<pending, emitted, failed, ops>>

CallJoin ==
    /\ CanCall
    /\ Last(hist).kind = "pair"
    /\ Applied("join", Whole(Join(Cur, Last(hist).a, Last(hist).b)))

CallSplit ==
    /\ CanCall
    /\ Last(hist).kind = "whole"
    /\ LET s == Split(Cur, Last(hist).a)
       IN Applied("split", Pair(s[1], s[2]))

CallPush ==
    /\ CanCall
    /\ Last(hist).kind = "elem"
    /\ Applied("push", Whole(Push(Cur, Last(hist).a, Last(hist).b)))

CallPop ==
    /\ CanCall
    /\ Last(hist).kind = "whole"
    /\ RightArity(Cur) = 1
    /\ LET s == Pop(Cur, Last(hist).a)
       IN Applied("pop", Elem(s[1], s[2]))

\* t.split() with the left type given by the caller; it compiles when an impl
\* resolves
CallJoinedSplit ==
    /\ CanCall
    /\ Last(hist).kind = "whole"
    /\ LET t == Last(hist).a
           A == SubSeq(TypeOf(t), 1, LeftArity(Cur))
       IN /\ Resolve(A, TypeOf(t)) # {}
          /\ LET s == JoinedSplit(A, t)
             IN Applied("Joined::split", Pair(s[1], s[2]))

\* t.pop() with the prefix type given by the caller
CallAppendedPop ==
    /\ CanCall
    /\ Last(hist).kind = "whole"
    /\ RightArity(Cur) = 1
    /\ LET t == Last(hist).a
           A == SubSeq(TypeOf(t), 1, LeftArity(Cur))
       IN /\ ResolveAppend(A, TypeOf(t)) # {}
          /\ LET s == AppendedPop(A, t)
             IN Applied("Appended::pop", Elem(s[1], s[2]))

Init ==
    /\ pending = <<TopInvocation>>
    /\ emitted = <<>>
    /\ failed = FALSE
    /\ inst = 0
    /\ hist = <<>>
    /\ ops = <<>>

GenNext == ExpandTupleJoin \/ ExpandTupleJoinY

Next ==
    \/ ExpandTupleJoin
    \/ ExpandTupleJoinY
    \/ Start
    \/ CallJoin
    \/ CallSplit
    \/ CallPush
    \/ CallPop
    \/ CallJoinedSplit
    \/ CallAppendedPop

Spec == Init /\ [][Next]_vars

GenSpec == Init /\ [][GenNext]_vars /\ WF_vars(ExpandTupleJoin) /\ WF_vars(ExpandTupleJoinY)

\* ------------------------------------------------------------------------
\* Properties of the value level (checked under Spec)
\* ------------------------------------------------------------------------

Steps == 1..Len(ops)

Distinct(t) == \A p, q \in 1..Len(t) : p # q => t[p] # t[q]

\* C1: split(join(l, r)) returns exactly (l, r), through every emitted impl.
C1_SplitAfterJoin ==
    \A k \in Steps :
        (k < Len(ops) /\ ops[k] = "join" /\ ops[k + 1] = "split") =>
            /\ hist[k].kind = "pair"
            /\ hist[k + 2] = hist[k]

C1_Witness ==
    /\ ops = <<"join", "split">>
    /\ LeftArity(Cur) = MaxTupleLen
    /\ RightArity(Cur) = MaxTupleLen
    /\ Distinct(hist[1].a \o hist[1].b)
    /\ hist[3] = hist[1]

\* C2: join applied to the two halves split(t) returns is t again, through
\* every emitted impl.
C2_JoinAfterSplit ==
    \A k \in Steps :
        (k < Len(ops) /\ ops[k] = "split" /\ ops[k + 1] = "join") =>
            /\ hist[k].kind = "whole"
            /\ hist[k + 2] = hist[k]

C2_Witness ==
    /\ ops = <<"split", "join">>
    /\ LeftArity(Cur) = MaxTupleLen
    /\ RightArity(Cur) = MaxTupleLen
    /\ Distinct(hist[1].a)
    /\ hist[3] = hist[1]

\* C3: join(l, r) is l followed by r: arity L+R, position k holds l[k] for
\* k <= L (counting from 1) and r[k-L] after it; (1,2).join((3,4,5,6)) is
\* (1,2,3,4,5,6).
C3_JoinConcatenates ==
    \A k \in Steps :
        ops[k] = "join" =>
            LET l == hist[k].a
                r == hist[k].b
                o == hist[k + 1].a
                L == LeftArity(Cur)
                R == RightArity(Cur)
            IN /\ Len(l) = L
               /\ Len(r) = R
               /\ Len(o) = L + R
               /\ \A p \in 1..(L + R) : o[p] = IF p <= L THEN l[p] ELSE r[p - L]
               /\ o = l \o r
               /\ (l = <<1, 2>> /\ r = <<3, 4, 5, 6>>) => o = <<1, 2, 3, 4, 5, 6>>

C3_Witness ==
    /\ Len(ops) >= 1
    /\ ops[1] = "join"
    /\ hist[1].a = <<1, 2>>
    /\ hist[1].b = <<3, 4, 5, 6>>
    /\ hist[2].a = <<1, 2, 3, 4, 5, 6>>

\* C4: with an empty operand on either side join returns the other operand
\* unchanged and split returns it beside the empty tuple, whichever rule
\* generated the impl.
C4_ZeroArity ==
    \A k \in Steps :
        /\ (ops[k] = "join" /\ RightArity(Cur) = 0) =>
                hist[k].b = <<>> /\ hist[k + 1].a = hist[k].a
        /\ (ops[k] = "join" /\ LeftArity(Cur) = 0) =>
                hist[k].a = <<>> /\ hist[k + 1].a = hist[k].b
        /\ (ops[k] = "split" /\ RightArity(Cur) = 0) =>
                hist[k + 1] = Pair(hist[k].a, <<>>)
        /\ (ops[k] = "split" /\ LeftArity(Cur) = 0) =>
                hist[k + 1] = Pair(<<>>, hist[k].a)

C4_Witness ==
    /\ ops = <<"join", "split">>
    /\ Cur.name = "tuple_join_y.2"
    /\ LeftArity(Cur) = 0
    /\ RightArity(Cur) = MaxTupleLen - 1
    /\ Distinct(hist[1].b)
    /\ hist[2].a = hist[1].b
    /\ hist[3] = Pair(<<>>, hist[1].b)

\* C5: push(t, e) is join(t, (e,)), t with e as its last element, and
\* pop(push(t, e)) returns (t, e).
C5_PushPop ==
    \A k \in Steps :
        /\ ops[k] = "push" =>
            /\ Len(hist[k + 1].a) = Len(hist[k].a) + 1
            /\ hist[k + 1].a = Append(hist[k].a, hist[k].b)
            /\ hist[k + 1].a = Join(Cur, hist[k].a, <<hist[k].b>>)
        /\ (k < Len(ops) /\ ops[k] = "push" /\ ops[k + 1] = "pop") =>
            hist[k + 2] = hist[k]

C5_Witness ==
    /\ ops = <<"push", "pop">>
    /\ LeftArity(Cur) = MaxTupleLen
    /\ Distinct(Append(hist[1].a, hist[1].b))
    /\ hist[3] = hist[1]

\* C8: for a left type with an emitted impl exactly one emitted impl has that
\* Self type and Out equal to the combined type; Joined::split returns what
\* that impl's Join::split returns and Appended::pop what its Append::pop
\* returns; (1,2,3,4,5,6).split() is ((1,2),(3,4,5,6)).
C8_ReverseDerivation ==
    /\ inst # 0 =>
        LET T == [k \in 1..OutArity(Cur) |-> "int"]
            A == SubSeq(T, 1, LeftArity(Cur))
        IN /\ Resolve(A, T) = {inst}
           /\ RightArity(Cur) = 1 => ResolveAppend(A, T) = {inst}
    /\ \A k \in Steps :
        /\ ops[k] = "Joined::split" =>
            /\ hist[k + 1] = Pair(Split(Cur, hist[k].a)[1], Split(Cur, hist[k].a)[2])
            /\ (hist[k].a = <<1, 2, 3, 4, 5, 6>> /\ LeftArity(Cur) = 2) =>
                    hist[k + 1] = Pair(<<1, 2>>, <<3, 4, 5, 6>>)
        /\ ops[k] = "Appended::pop" =>
            /\ hist[k + 1] = Elem(Pop(Cur, hist[k].a)[1], Pop(Cur, hist[k].a)[2])
            /\ hist[k].a = <<1, 2, 3>> => hist[k + 1] = Elem(<<1, 2>>, 3)

C8_Witness ==
    /\ Len(ops) >= 1
    /\ ops[1] = "Joined::split"
    /\ LeftArity(Cur) = 2
    /\ hist[1].a = <<1, 2, 3, 4, 5, 6>>
    /\ hist[2] = Pair(<<1, 2>>, <<3, 4, 5, 6>>)

\* ------------------------------------------------------------------------
\* Properties of the expansion (checked under GenSpec)
\* ------------------------------------------------------------------------

Emitted == 1..Len(emitted)

ArityPair(i) == <<LeftArity(i), RightArity(i)>>

FromTupleJoin(i) == i.name \in {"tuple_join.1", "tuple_join.2"}

Size(inv) == Len(inv.xs) + Len(inv.ys)

ZeroZero == {p \in Emitted : ArityPair(emitted[p]) = <<0, 0>>}

\* C6: no arity pair is emitted twice at any point, no arity exceeds 13, and
\* when the expansion has finished the emitted impls are exactly one per
\* pair (i, j) in 0..13 x 0..13, 196 in all.
C6_ExactlyOnePerPair ==
    /\ \A p, q \in Emitted :
            p # q => ArityPair(emitted[p]) # ArityPair(emitted[q])
    /\ \A p \in Emitted :
            LeftArity(emitted[p]) <= MaxTupleLen /\ RightArity(emitted[p]) <= MaxTupleLen
    /\ Expanded =>
        /\ {ArityPair(emitted[p]) : p \in Emitted} = (0..MaxTupleLen) \X (0..MaxTupleLen)
        /\ Len(emitted) = 196

C6_Witness ==
    /\ Expanded
    /\ \E p, q \in Emitted :
        /\ ArityPair(emitted[p]) = <<MaxTupleLen, MaxTupleLen>>
        /\ ArityPair(emitted[q]) = <<0, 0>>

C9_DescendingOrder ==
    /\ \A p \in Emitted :
            FromTupleJoin(emitted[p]) =>
                LeftArity(emitted[p]) =
                    MaxTupleLen - Cardinality({q \in 1..(p - 1) : FromTupleJoin(emitted[q])})
    /\ \A p, q \in Emitted :
            LeftArity(emitted[p]) = LeftArity(emitted[q]) => emitted[p].xs = emitted[q].xs
    /\ \A p \in Emitted :
            RightArity(emitted[p]) =
                MaxTupleLen - Cardinality({q \in 1..(p - 1) :
                                    LeftArity(emitted[q]) = LeftArity(emitted[p])})
    /\ Expanded =>
            \A i \in 0..MaxTupleLen :
                Cardinality({p \in Emitted : LeftArity(emitted[p]) = i}) = MaxTupleLen + 1

C9_Witness ==
    /\ Expanded
    /\ Len(emitted) = 196
    /\ ArityPair(emitted[1]) = <<MaxTupleLen, MaxTupleLen>>
    /\ ArityPair(emitted[14]) = <<0, MaxTupleLen>>
    /\ ArityPair(emitted[15]) = <<0, MaxTupleLen - 1>>

\* C10: every invocation reached matches exactly one rule (tuple_join never
\* gets an empty right list), every invocation a step makes has fewer
\* identifiers than the one it replaces, only the empty-right-list rule of
\* tuple_join_y makes none, the (0, 0) impl comes from that rule and once,
\* and eventually nothing is pending.
C10_Terminates ==
    /\ [](/\ ~failed
          /\ \A k \in 1..Len(pending) :
                /\ Cardinality(MatchingRules(pending[k])) = 1
                /\ pending[k].name = "tuple_join" => pending[k].ys # <<>>
          /\ Cardinality(ZeroZero) <= 1
          /\ \A p \in ZeroZero : emitted[p].name = "tuple_join_y.1")
    /\ [][/\ \A k \in 1..(Len(pending') - Len(pending) + 1) :
                Size(pending'[k]) < Size(Head(pending))
          /\ (Len(pending') = Len(pending) - 1) <=>
                (Head(pending).name = "tuple_join_y" /\ Head(pending).ys = <<>>)]_vars
    /\ <>[](pending = <<>> /\ Cardinality(ZeroZero) = 1)

C10_Witness ==
    /\ Expanded
    /\ \E p \in ZeroZero : emitted[p].name = "tuple_join_y.1"

====
